---- MODULE Spec2Model ----
(***************************************************************************)
(* Model of tetris.c: a circular queue of upcoming pieces (Fila), a stack  *)
(* of reserved pieces (Pilha), the piece generator (gerarPeca) and the     *)
(* menu loop of main with its six commands.                                *)
(***************************************************************************)
EXTENDS Integers, Sequences, FiniteSets, Bags, TLC

\* ---- program constants ----
FILA_MAX == 5
PILHA_MAX == 3
\* number of piece types, the modulus of rand() % 7
NUM_TIPOS == 7
\* largest value of the C type int of id_contador and Peca.id
INT_MAX == 2147483647
INT_MIN == (-INT_MAX) - 1

\* ---- bounds of the model ----
\* rand() returns a value other than 0 at most MaxOutros times
MaxOutros == 1
\* gerarPeca is called at most MaxGeradas times from the initial state on
MaxGeradas == 8
\* scanf delivers an integer of 0..MaxOpcao
MaxOpcao == 6

VARIABLES
  fila,         \* Fila filaDePecas: [itens, inicio, fim, total]
  pilha,        \* Pilha pilhaDeReserva: [itens, topo]
  id_contador,  \* static int id_contador of gerarPeca
  opcao,        \* int opcao of main
  i,            \* loop variable of the initial fill
  pc,           \* position of main: "fill", "menu", "fim", "abortado";
                \* "prim" for the caller of the primitives
  acao,         \* the last "Acao:" report printed (message and piece)
  anterior,     \* history: fila, pilha, id_contador before the last step, and
                \* whether the report before it was that of an exchange
  geradas,      \* history: number of gerarPeca calls since the initial state
  outros,       \* history: number of those calls in which rand() was not 0
  ultima,       \* history: the piece returned by the last gerarPeca call
  relatadas     \* history: the bag of the ids of the pieces reported as
                \* played ("Jogada") or used ("Usada") since the initial state

vars == <<fila, pilha, id_contador, opcao, i, pc, acao, anterior, geradas, outros, ultima, relatadas>>

\* ---- pieces ----
tipos == <<"I", "O", "T", "L", "S", "Z", "J">>

\* Peca p = {{-1}, -1}: the invalid piece returned on error
PecaInvalida == [nome |-> "0xFF", id |-> -1]

\* The content of an array slot that has not been written yet.  The arrays
\* are locals of main and start uninitialised; no slot is read before it is
\* written (see SoLidasEscritas), so the content is kept as one token.
Indeterminada == [nome |-> "indeterminado", id |-> -1]

\* the values of rand(): 0 gives tipos[0] = 'I', 1 gives 'O'
Rands == {0, 1}
\* the values of opcao after scanf("%d", &opcao): 0..5 are the commands, any
\* other value takes the default branch (a scanf that fails leaves opcao
\* with a value of this set too)
Opcoes == 0..MaxOpcao

\* ---- Fila ----
inicializarFila(f) == [f EXCEPT !.inicio = 0, !.fim = 0, !.total = 0]

filaVazia(f) == f.total = 0

filaCheia(f) == f.total = FILA_MAX

\* inserirFila with the bug: no check for a full queue
inserirFilaSemGuarda(f, p) ==
  [f EXCEPT !.itens[f.fim] = p,
            !.fim = (f.fim + 1) % FILA_MAX,
            !.total = f.total + 1]

\* inserirFila with the bug: fim is advanced without the modulo
inserirFilaSemModulo(f, p) ==
  IF filaCheia(f) THEN f
  ELSE [f EXCEPT !.itens[f.fim] = p,
                 !.fim = f.fim + 1,
                 !.total = f.total + 1]

\* inserirFila with the bug: the piece is written at the front slot
inserirFilaNoInicio(f, p) ==
  IF filaCheia(f) THEN f
  ELSE [f EXCEPT !.itens[f.inicio] = p,
                 !.fim = (f.fim + 1) % FILA_MAX,
                 !.total = f.total + 1]

inserirFila(f, p) ==
  IF filaCheia(f) THEN f
  ELSE [f EXCEPT !.itens[f.fim] = p,
                 !.fim = (f.fim + 1) % FILA_MAX,
                 !.total = f.total + 1]

\* removerFila with the bug: no check for an empty queue
removerFilaSemGuarda(f) ==
  [f |-> [f EXCEPT !.inicio = (f.inicio + 1) % FILA_MAX,
                   !.total = f.total - 1],
   p |-> f.itens[f.inicio]]

\* removerFila with the bug: inicio is not advanced
removerFilaSemAvanco(f) ==
  IF filaVazia(f) THEN [f |-> f, p |-> PecaInvalida]
  ELSE [f |-> [f EXCEPT !.total = f.total - 1],
        p |-> f.itens[f.inicio]]

\* returns the queue after the call (f) and the returned piece (p)
removerFila(f) ==
  IF filaVazia(f) THEN [f |-> f, p |-> PecaInvalida]
  ELSE [f |-> [f EXCEPT !.inicio = (f.inicio + 1) % FILA_MAX,
                        !.total = f.total - 1],
        p |-> f.itens[f.inicio]]

\* ---- Pilha ----
inicializarPilha(p) == [p EXCEPT !.topo = -1]

pilhaVazia(p) == p.topo = -1

pilhaCheia(p) == p.topo = PILHA_MAX - 1

\* pushPilha with the bug: the slot is written before topo is incremented
pushPilhaEscreveAntes(p, peca) ==
  IF pilhaCheia(p) THEN p
  ELSE [p EXCEPT !.itens[p.topo] = peca, !.topo = p.topo + 1]

pushPilha(p, peca) ==
  IF pilhaCheia(p) THEN p
  ELSE [p EXCEPT !.topo = p.topo + 1, !.itens[p.topo + 1] = peca]

\* popPilha with the bug: the piece at the base is returned
popPilhaDaBase(p) ==
  IF pilhaVazia(p) THEN [p |-> p, peca |-> PecaInvalida]
  ELSE [p |-> [p EXCEPT !.topo = p.topo - 1],
        peca |-> p.itens[0]]

\* popPilha with the bug: topo is not decremented
popPilhaSemDecremento(p) ==
  IF pilhaVazia(p) THEN [p |-> p, peca |-> PecaInvalida]
  ELSE [p |-> p, peca |-> p.itens[p.topo]]

\* returns the stack after the call (p) and the returned piece (peca)
popPilha(p) ==
  IF pilhaVazia(p) THEN [p |-> p, peca |-> PecaInvalida]
  ELSE [p |-> [p EXCEPT !.topo = p.topo - 1],
        peca |-> p.itens[p.topo]]

\* ---- generator ----
\* gerarPeca with the bug: the counter advances by two
gerarPecaSaltando(c, r) ==
  {[p |-> [nome |-> tipos[(r % NUM_TIPOS) + 1], id |-> c],
    id_contador |-> c + 2, abortado |-> FALSE]}

\* The outcomes of one call with counter value c and rand() value r.
\* id_contador++ on INT_MAX is a signed overflow: the build either wraps
\* to INT_MIN or traps (abortado).
gerarPeca(c, r) ==
  LET p == [nome |-> tipos[(r % NUM_TIPOS) + 1], id |-> c] IN
  IF c < INT_MAX
    THEN {[p |-> p, id_contador |-> c + 1, abortado |-> FALSE]}
    ELSE {[p |-> p, id_contador |-> INT_MIN, abortado |-> FALSE],
          [p |-> p, id_contador |-> c, abortado |-> TRUE]}

\* ---- reports ----
Relato(msg) == [msg |-> msg]
RelatoPeca(msg, p) == [msg |-> msg, peca |-> p]

\* the value of ultima before the first call of gerarPeca
Nenhuma == [nome |-> "nenhuma", id |-> -1]

\* the program state proper: the two containers and the generator's counter
Estado(s) == [fila |-> s.fila, pilha |-> s.pilha, id_contador |-> s.id_contador]

\* the report, as far as the history keeps it: an exchange, a call of
\* pushPilha or anything else
Troca(msg) ==
  IF msg \in {"TrocaRealizada", "TrocaMultiplaRealizada", "pushPilha"}
    THEN msg ELSE "outra"

Instantaneo ==
  [fila |-> fila, pilha |-> pilha, id_contador |-> id_contador,
   troca |-> Troca(acao.msg)]

\* the logical content of the queue, front first (the loop of exibirEstado)
FilaSeq(f) == [k \in 1..f.total |-> f.itens[(f.inicio + k - 1) % FILA_MAX]]

\* the content of the stack, top first (the loop of exibirEstado)
PilhaSeq(p) == [k \in 1..(p.topo + 1) |-> p.itens[p.topo - (k - 1)]]

\* the cap on the number of gerarPeca calls of one behaviour
PodeGerar == geradas < MaxGeradas

\* rand() may return r, and the count of its values other than 0 afterwards
PodeSortear(r) == r = 0 \/ outros < MaxOutros
Sorteados(r) == IF r = 0 THEN outros ELSE outros + 1

\* ---- start of main ----
Init ==
  /\ fila = inicializarFila([itens |-> [k \in 0..(FILA_MAX - 1) |-> Indeterminada],
                              inicio |-> 0, fim |-> 0, total |-> 0])
  /\ pilha = inicializarPilha([itens |-> [k \in 0..(PILHA_MAX - 1) |-> Indeterminada],
                                topo |-> 0])
  /\ id_contador = 0
  /\ opcao \in Opcoes
  /\ i = 0
  /\ pc = "fill"
  /\ acao = Relato("nenhuma")
  /\ anterior = [fila |-> fila, pilha |-> pilha, id_contador |-> id_contador,
                 troca |-> "outra"]
  /\ geradas = 0
  /\ outros = 0
  /\ ultima = Nenhuma
  /\ relatadas = EmptyBag

\* Preencher with the bug: the loop stops one piece short
PreencherCurto ==
  /\ pc = "fill"
  /\ i < FILA_MAX - 1
  /\ PodeGerar
  /\ \E r \in Rands : \E g \in gerarPeca(id_contador, r) :
       /\ PodeSortear(r)
       /\ id_contador' = g.id_contador
       /\ IF g.abortado
            THEN pc' = "abortado" /\ UNCHANGED <<fila, i, geradas, outros, ultima>>
            ELSE /\ ultima' = g.p
                 /\ geradas' = geradas + 1
                 /\ outros' = Sorteados(r)
                 /\ fila' = inserirFila(fila, g.p)
                 /\ i' = i + 1
                 /\ pc' = IF i + 1 < FILA_MAX - 1 THEN "fill" ELSE "menu"
  /\ anterior' = Instantaneo
  /\ UNCHANGED <<pilha, opcao, acao, relatadas>>

\* for (int i = 0; i < FILA_MAX; i++) inserirFila(&filaDePecas, gerarPeca());
Preencher ==
  /\ pc = "fill"
  /\ i < FILA_MAX
  /\ PodeGerar
  /\ \E r \in Rands : \E g \in gerarPeca(id_contador, r) :
       /\ PodeSortear(r)
       /\ id_contador' = g.id_contador
       /\ IF g.abortado
            THEN pc' = "abortado" /\ UNCHANGED <<fila, i, geradas, outros, ultima>>
            ELSE /\ ultima' = g.p
                 /\ geradas' = geradas + 1
                 /\ outros' = Sorteados(r)
                 /\ fila' = inserirFila(fila, g.p)
                 /\ i' = i + 1
                 /\ pc' = IF i + 1 < FILA_MAX THEN "fill" ELSE "menu"
  /\ anterior' = Instantaneo
  /\ UNCHANGED <<pilha, opcao, acao, relatadas>>

\* Repor with the bug: the piece is generated but not enqueued
ReporSemInserir(f1) ==
  \E r \in Rands : \E g \in gerarPeca(id_contador, r) :
    /\ PodeSortear(r)
    /\ id_contador' = g.id_contador
    /\ IF g.abortado
         THEN pc' = "abortado" /\ fila' = f1 /\ UNCHANGED <<geradas, outros, ultima>>
         ELSE /\ pc' = "menu"
              /\ outros' = Sorteados(r)
              /\ fila' = f1
              /\ ultima' = g.p
              /\ geradas' = geradas + 1

\* inserirFila(&filaDePecas, gerarPeca()) on the queue f1, in a menu command
Repor(f1) ==
  \E r \in Rands : \E g \in gerarPeca(id_contador, r) :
    /\ PodeSortear(r)
    /\ id_contador' = g.id_contador
    /\ IF g.abortado
         THEN pc' = "abortado" /\ fila' = f1 /\ UNCHANGED <<geradas, outros, ultima>>
         ELSE /\ pc' = "menu"
              /\ outros' = Sorteados(r)
              /\ fila' = inserirFila(f1, g.p)
              /\ ultima' = g.p
              /\ geradas' = geradas + 1

\* case 1: Jogar peca
Jogar ==
  /\ pc = "menu"
  /\ opcao' = 1
  /\ anterior' = Instantaneo
  /\ IF ~filaVazia(fila)
       THEN /\ PodeGerar
            /\ LET jogada == removerFila(fila) IN
                 /\ acao' = RelatoPeca("Jogada", jogada.p)
                 /\ relatadas' = relatadas (+) SetToBag({jogada.p.id})
                 /\ Repor(jogada.f)
            /\ UNCHANGED <<pilha, i>>
       ELSE /\ acao' = Relato("FilaVaziaJogar")
            /\ UNCHANGED <<fila, pilha, id_contador, i, pc, geradas, outros, ultima, relatadas>>

\* Reservar with the bug: the front is pushed but left in the queue
ReservarCopia ==
  /\ pc = "menu"
  /\ opcao' = 2
  /\ anterior' = Instantaneo
  /\ IF pilhaCheia(pilha)
       THEN /\ acao' = Relato("PilhaCheia")
            /\ UNCHANGED <<fila, pilha, id_contador, i, pc, geradas, outros, ultima, relatadas>>
       ELSE IF filaVazia(fila)
         THEN /\ acao' = Relato("FilaVaziaReservar")
              /\ UNCHANGED <<fila, pilha, id_contador, i, pc, geradas, outros, ultima, relatadas>>
         ELSE /\ PodeGerar
              /\ LET reservada == fila.itens[fila.inicio] IN
                   /\ pilha' = pushPilha(pilha, reservada)
                   /\ acao' = RelatoPeca("Reservada", reservada)
                   /\ Repor(fila)
              /\ UNCHANGED <<i, relatadas>>

\* Reservar with the bug: the piece is dequeued before the stack is checked
ReservarRemoveAntes ==
  /\ pc = "menu"
  /\ opcao' = 2
  /\ anterior' = Instantaneo
  /\ IF filaVazia(fila)
       THEN /\ acao' = Relato("FilaVaziaReservar")
            /\ UNCHANGED <<fila, pilha, id_contador, i, pc, geradas, outros, ultima, relatadas>>
       ELSE LET reservada == removerFila(fila) IN
         IF pilhaCheia(pilha)
           THEN /\ acao' = Relato("PilhaCheia")
                /\ fila' = reservada.f
                /\ UNCHANGED <<pilha, id_contador, i, pc, geradas, outros, ultima, relatadas>>
           ELSE /\ PodeGerar
                /\ pilha' = pushPilha(pilha, reservada.p)
                /\ acao' = RelatoPeca("Reservada", reservada.p)
                /\ Repor(reservada.f)
                /\ UNCHANGED <<i, relatadas>>

\* case 2: Reservar peca
Reservar ==
  /\ pc = "menu"
  /\ opcao' = 2
  /\ anterior' = Instantaneo
  /\ IF pilhaCheia(pilha)
       THEN /\ acao' = Relato("PilhaCheia")
            /\ UNCHANGED <<fila, pilha, id_contador, i, pc, geradas, outros, ultima, relatadas>>
       ELSE IF filaVazia(fila)
         THEN /\ acao' = Relato("FilaVaziaReservar")
              /\ UNCHANGED <<fila, pilha, id_contador, i, pc, geradas, outros, ultima, relatadas>>
         ELSE /\ PodeGerar
              /\ LET reservada == removerFila(fila) IN
                   /\ pilha' = pushPilha(pilha, reservada.p)
                   /\ acao' = RelatoPeca("Reservada", reservada.p)
                   /\ Repor(reservada.f)
              /\ UNCHANGED <<i, relatadas>>

\* UsarReservada with the bug: the stack is not checked for being empty
UsarReservadaSemVerificar ==
  /\ pc = "menu"
  /\ opcao' = 3
  /\ anterior' = Instantaneo
  /\ LET usada == popPilha(pilha) IN
       /\ pilha' = usada.p
       /\ acao' = RelatoPeca("Usada", usada.peca)
       /\ relatadas' = relatadas (+) SetToBag({usada.peca.id})
  /\ UNCHANGED <<fila, id_contador, i, pc, geradas, outros, ultima>>

\* case 3: Usar peca reservada
UsarReservada ==
  /\ pc = "menu"
  /\ opcao' = 3
  /\ anterior' = Instantaneo
  /\ IF ~pilhaVazia(pilha)
       THEN LET usada == popPilha(pilha) IN
              /\ pilha' = usada.p
              /\ acao' = RelatoPeca("Usada", usada.peca)
              /\ relatadas' = relatadas (+) SetToBag({usada.peca.id})
       ELSE /\ acao' = Relato("PilhaVazia")
            /\ UNCHANGED <<pilha, relatadas>>
  /\ UNCHANGED <<fila, id_contador, i, pc, geradas, outros, ultima>>

\* TrocarFrente with the bug: the slot after the front is exchanged
TrocarFrenteSegundo(f, p) ==
  LET idx == (f.inicio + 1) % FILA_MAX
      temp == f.itens[idx]
  IN [fila  |-> [f EXCEPT !.itens[idx] = p.itens[p.topo]],
      pilha |-> [p EXCEPT !.itens[p.topo] = temp]]

\* TrocarFrente with the bug: no temp, the stack gets the value just written
TrocarFrenteSemTemp(f, p) ==
  LET f1 == [f EXCEPT !.itens[f.inicio] = p.itens[p.topo]] IN
  [fila  |-> f1,
   pilha |-> [p EXCEPT !.itens[p.topo] = f1.itens[f1.inicio]]]

\* the exchange of case 4: queue front with stack top, in the arrays
TrocarFrente(f, p) ==
  LET temp == f.itens[f.inicio] IN
  [fila  |-> [f EXCEPT !.itens[f.inicio] = p.itens[p.topo]],
   pilha |-> [p EXCEPT !.itens[p.topo] = temp]]

\* case 4 as a function of the two containers: the containers and the report
Caso4(f, p) ==
  IF filaVazia(f) \/ pilhaVazia(p)
    THEN [fila |-> f, pilha |-> p, msg |-> "TrocaImpossivel"]
    ELSE [fila |-> TrocarFrente(f, p).fila,
          pilha |-> TrocarFrente(f, p).pilha,
          msg |-> "TrocaRealizada"]

\* case 4: Trocar peca atual com topo da pilha
Trocar ==
  /\ pc = "menu"
  /\ opcao' = 4
  /\ anterior' = Instantaneo
  /\ fila' = Caso4(fila, pilha).fila
  /\ pilha' = Caso4(fila, pilha).pilha
  /\ acao' = Relato(Caso4(fila, pilha).msg)
  /\ UNCHANGED <<id_contador, i, pc, geradas, outros, ultima, relatadas>>

\* IdxFila with the bug: the modulus is the capacity of the stack
IdxFilaModuloPilha(f, k) == (f.inicio + k) % PILHA_MAX

\* int idx_fila = (filaDePecas.inicio + i) % FILA_MAX, for i = k
IdxFila(f, k) == (f.inicio + k) % FILA_MAX

\* int idx_pilha = pilhaDeReserva.topo - i, for i = k
IdxPilha(p, k) == p.topo - k

\* TrocaPasso with the bug: the stack is indexed from its base
TrocaPassoDaBase(s, k) ==
  LET idx_fila == (s.fila.inicio + k) % FILA_MAX
      idx_pilha == k
      temp == s.fila.itens[idx_fila]
  IN [fila  |-> [s.fila EXCEPT !.itens[idx_fila] = s.pilha.itens[idx_pilha]],
      pilha |-> [s.pilha EXCEPT !.itens[idx_pilha] = temp]]

\* TrocaPasso with the bug: no temp, the stack gets the value just written
TrocaPassoSemTemp(s, k) ==
  LET idx_fila == (s.fila.inicio + k) % FILA_MAX
      idx_pilha == s.pilha.topo - k
      f1 == [s.fila EXCEPT !.itens[idx_fila] = s.pilha.itens[idx_pilha]]
  IN [fila  |-> f1,
      pilha |-> [s.pilha EXCEPT !.itens[idx_pilha] = f1.itens[idx_fila]]]

\* one iteration of the loop of case 5, on s = [fila, pilha], for index k
TrocaPasso(s, k) ==
  LET idx_fila == IdxFila(s.fila, k)
      idx_pilha == IdxPilha(s.pilha, k)
      temp == s.fila.itens[idx_fila]
  IN [fila  |-> [s.fila EXCEPT !.itens[idx_fila] = s.pilha.itens[idx_pilha]],
      pilha |-> [s.pilha EXCEPT !.itens[idx_pilha] = temp]]

\* for (int i = 0; i < 3; i++) from i = k on
RECURSIVE TrocaLaco(_, _)
TrocaLaco(s, k) ==
  IF k < 3 THEN TrocaLaco(TrocaPasso(s, k), k + 1) ELSE s

\* case 5 as a function of the two containers: the containers and the report
Caso5(f, p) ==
  IF f.total < 3 \/ p.topo < 2
    THEN [fila |-> f, pilha |-> p, msg |-> "TrocaMultiplaImpossivel"]
    ELSE [fila |-> TrocaLaco([fila |-> f, pilha |-> p], 0).fila,
          pilha |-> TrocaLaco([fila |-> f, pilha |-> p], 0).pilha,
          msg |-> "TrocaMultiplaRealizada"]

\* case 5: Troca multipla
TrocaMultipla ==
  /\ pc = "menu"
  /\ opcao' = 5
  /\ anterior' = Instantaneo
  /\ fila' = Caso5(fila, pilha).fila
  /\ pilha' = Caso5(fila, pilha).pilha
  /\ acao' = Relato(Caso5(fila, pilha).msg)
  /\ UNCHANGED <<id_contador, i, pc, geradas, outros, ultima, relatadas>>

\* case 0: Sair; the loop condition opcao != 0 ends main
Sair ==
  /\ pc = "menu"
  /\ opcao' = 0
  /\ anterior' = Instantaneo
  /\ acao' = Relato("Encerrando")
  /\ pc' = "fim"
  /\ UNCHANGED <<fila, pilha, id_contador, i, geradas, outros, ultima, relatadas>>

\* default: any other integer
OpcaoInvalida ==
  /\ pc = "menu"
  /\ \E o \in Opcoes \ (0..5) : opcao' = o
  /\ anterior' = Instantaneo
  /\ acao' = Relato("OpcaoInvalida")
  /\ UNCHANGED <<fila, pilha, id_contador, i, pc, geradas, outros, ultima, relatadas>>

Comando ==
  \/ Jogar
  \/ Reservar
  \/ UsarReservada
  \/ Trocar
  \/ TrocaMultipla
  \/ Sair
  \/ OpcaoInvalida

Next == Preencher \/ Comando

Spec == Init /\ [][Next]_vars

\* ---- a late state of the same program ----
\* The state after the initial fill and INT_MAX - 6 Jogar commands.  Piece n
\* is stored in slot n % FILA_MAX and INT_MAX % FILA_MAX = 2, so the queue
\* holds the ids INT_MAX - 6 .. INT_MAX - 2 in slots 1, 2, 3, 4, 0, its front
\* is slot 1, the stack was never written and id_contador is INT_MAX - 1.
\* geradas counts the five calls of the fill, not those of the commands
\* skipped, so that MaxGeradas leaves the same number of calls as in Spec;
\* outros counts the draws of the pieces still in the state, relatadas the
\* reports from this state on.
PecaTardia(n, r) == [nome |-> tipos[(r % NUM_TIPOS) + 1], id |-> n]

InitTardio ==
  \E rs \in [0..FILA_MAX -> Rands] :
    LET itens == [k \in 0..(FILA_MAX - 1) |->
                    PecaTardia(INT_MAX - 6 + ((k + FILA_MAX - 1) % FILA_MAX), rs[k])]
        jogada == PecaTardia(INT_MAX - 7, rs[FILA_MAX])
    IN
    /\ fila = [itens |-> itens, inicio |-> 1, fim |-> 1, total |-> FILA_MAX]
    /\ pilha = inicializarPilha([itens |-> [k \in 0..(PILHA_MAX - 1) |-> Indeterminada],
                                  topo |-> 0])
    /\ id_contador = INT_MAX - 1
    /\ opcao = 1
    /\ i = FILA_MAX
    /\ pc = "menu"
    /\ acao = RelatoPeca("Jogada", jogada)
    /\ anterior = [fila |-> [itens |-> [itens EXCEPT ![0] = jogada],
                             inicio |-> 0, fim |-> 0, total |-> FILA_MAX],
                   pilha |-> pilha,
                   id_contador |-> INT_MAX - 2,
                   troca |-> "outra"]
    /\ geradas = FILA_MAX
    /\ outros = Cardinality({k \in 0..FILA_MAX : rs[k] # 0})
    /\ outros <= MaxOutros
    /\ ultima = itens[0]
    /\ relatadas = EmptyBag

SpecTardio == InitTardio /\ [][Comando]_vars

\* ---- the containers under any caller ----
\* The two containers right after inicializarFila and inicializarPilha, and
\* a caller that calls the four primitives in any order, any number of
\* times, full or empty containers included.  acao records the call: its
\* name and the piece passed (inserirFila, pushPilha) or returned
\* (removerFila, popPilha).

\* the pieces the caller passes
PecasAvulsas == {[nome |-> tipos[1], id |-> 0], [nome |-> tipos[2], id |-> 1]}

InitPrim ==
  /\ fila = inicializarFila([itens |-> [k \in 0..(FILA_MAX - 1) |-> Indeterminada],
                              inicio |-> 0, fim |-> 0, total |-> 0])
  /\ pilha = inicializarPilha([itens |-> [k \in 0..(PILHA_MAX - 1) |-> Indeterminada],
                                topo |-> 0])
  /\ id_contador = 0
  /\ opcao = 0
  /\ i = 0
  /\ pc = "prim"
  /\ acao = Relato("nenhuma")
  /\ anterior = [fila |-> fila, pilha |-> pilha, id_contador |-> id_contador,
                 troca |-> "outra"]
  /\ geradas = 0
  /\ outros = 0
  /\ ultima = Nenhuma
  /\ relatadas = EmptyBag

\* inserirFila(&f, p)
ChamarInserirFila ==
  /\ pc = "prim"
  /\ \E p \in PecasAvulsas :
       /\ fila' = inserirFila(fila, p)
       /\ acao' = RelatoPeca("inserirFila", p)
  /\ anterior' = Instantaneo
  /\ UNCHANGED <<pilha, id_contador, opcao, i, pc, geradas, outros, ultima, relatadas>>

\* removerFila(&f)
ChamarRemoverFila ==
  /\ pc = "prim"
  /\ fila' = removerFila(fila).f
  /\ acao' = RelatoPeca("removerFila", removerFila(fila).p)
  /\ anterior' = Instantaneo
  /\ UNCHANGED <<pilha, id_contador, opcao, i, pc, geradas, outros, ultima, relatadas>>

\* pushPilha(&p, peca)
ChamarPushPilha ==
  /\ pc = "prim"
  /\ \E peca \in PecasAvulsas :
       /\ pilha' = pushPilha(pilha, peca)
       /\ acao' = RelatoPeca("pushPilha", peca)
  /\ anterior' = Instantaneo
  /\ UNCHANGED <<fila, id_contador, opcao, i, pc, geradas, outros, ultima, relatadas>>

\* popPilha(&p)
ChamarPopPilha ==
  /\ pc = "prim"
  /\ pilha' = popPilha(pilha).p
  /\ acao' = RelatoPeca("popPilha", popPilha(pilha).peca)
  /\ anterior' = Instantaneo
  /\ UNCHANGED <<fila, id_contador, opcao, i, pc, geradas, outros, ultima, relatadas>>

NextPrim ==
  \/ ChamarInserirFila
  \/ ChamarRemoverFila
  \/ ChamarPushPilha
  \/ ChamarPopPilha

SpecPrim == InitPrim /\ [][NextPrim]_vars

\* the program, or the caller of the primitives
SpecTodos == (Init \/ InitPrim) /\ [][Next \/ NextPrim]_vars

TypeOK ==
  /\ fila.total \in 0..FILA_MAX
  /\ fila.inicio \in 0..(FILA_MAX - 1)
  /\ fila.fim \in 0..(FILA_MAX - 1)
  /\ pilha.topo \in (-1)..(PILHA_MAX - 1)
  /\ id_contador \in INT_MIN..INT_MAX
  /\ opcao \in Opcoes
  /\ pc \in {"fill", "menu", "fim", "abortado", "prim"}

\* no slot is read before it is written: the live slots hold written pieces
SoLidasEscritas ==
  /\ \A k \in 1..fila.total : FilaSeq(fila)[k] # Indeterminada
  /\ \A k \in 1..(pilha.topo + 1) : PilhaSeq(pilha)[k] # Indeterminada

\* ---- properties ----
Ids(seq) == [k \in 1..Len(seq) |-> seq[k].id]

NomesValidos == {tipos[k] : k \in 1..NUM_TIPOS}

\* the queue q is the queue a without its front, followed by one piece
\* generated with counter value c
AvancaERepoe(a, q, c) ==
  /\ Len(q) = Len(a)
  /\ \A k \in 1..(Len(a) - 1) : q[k] = a[k + 1]
  /\ q[Len(q)].id = c
  /\ q[Len(q)].nome \in NomesValidos

\* C1: immediately after every successful Jogar (command 1) or Reservar
\* (command 2) the queue count total is exactly FILA_MAX = 5.
C1_FilaReposta ==
  (pc = "menu" /\ acao.msg \in {"Jogada", "Reservada"}) => fila.total = FILA_MAX

C1_Witness ==
  /\ pc = "menu"
  /\ opcao = 2
  /\ acao.msg = "Reservada"
  /\ fila.total = FILA_MAX

\* C2: the first call of gerarPeca returns id 0 and every later call returns
\* an id greater than the id of the call before it (hence, by transitivity,
\* greater than every earlier id, and no id is returned twice).
C2_IdsCrescentes ==
  [][geradas' # geradas =>
       IF ultima = Nenhuma THEN ultima'.id = 0 ELSE ultima'.id > ultima.id]_vars

\* the reports of the commands that fail or do nothing
MsgsSemEfeito ==
  {"FilaVaziaJogar", "PilhaCheia", "FilaVaziaReservar", "PilhaVazia",
   "TrocaImpossivel", "TrocaMultiplaImpossivel", "OpcaoInvalida", "Encerrando"}

\* C3: a command that fails, an unrecognised command and command 0 leave
\* the queue (slots, inicio, fim, total), the stack (slots, topo) and the id
\* counter as they were before the command.
C3_FalhaNaoAltera ==
  acao.msg \in MsgsSemEfeito => Estado(Instantaneo) = Estado(anterior)

C3_Witness ==
  /\ opcao = 2
  /\ acao.msg = "PilhaCheia"
  /\ pilhaCheia(anterior.pilha)
  /\ ~filaVazia(anterior.fila)
  /\ Estado(Instantaneo) = Estado(anterior)

\* C4: a successful Reservar moves the front piece of the queue to the top of
\* the stack, above the unchanged old stack, shifts the remaining queue
\* pieces one position to the front in their order, and appends one piece
\* generated with the previous counter value as its id.
C4_ReservaMove ==
  (pc = "menu" /\ acao.msg = "Reservada") =>
    LET fa == FilaSeq(anterior.fila) IN
      /\ acao.peca = fa[1]
      /\ pilha.topo = anterior.pilha.topo + 1
      /\ pilha.itens[pilha.topo] = fa[1]
      /\ \A k \in 0..anterior.pilha.topo : pilha.itens[k] = anterior.pilha.itens[k]
      /\ AvancaERepoe(fa, FilaSeq(fila), anterior.id_contador)
      /\ id_contador = anterior.id_contador + 1

\* queue [A0,B1,C2,D3,E4], empty stack; Reservar; queue [B1,C2,D3,E4,F5], stack [A0]
C4_Witness ==
  /\ pc = "menu"
  /\ acao.msg = "Reservada"
  /\ Ids(FilaSeq(anterior.fila)) = <<0, 1, 2, 3, 4>>
  /\ pilhaVazia(anterior.pilha)
  /\ Ids(FilaSeq(fila)) = <<1, 2, 3, 4, 5>>
  /\ Ids(PilhaSeq(pilha)) = <<0>>

\* C5: a successful Jogar reports the piece that was at the front of the
\* queue, shifts the remaining pieces one position to the front in their
\* order, appends one freshly generated piece and leaves the stack (slots and
\* topo) unchanged.
C5_JogadaRemoveFrente ==
  (pc = "menu" /\ acao.msg = "Jogada") =>
    LET fa == FilaSeq(anterior.fila) IN
      /\ acao.peca = fa[1]
      /\ AvancaERepoe(fa, FilaSeq(fila), anterior.id_contador)
      /\ id_contador = anterior.id_contador + 1
      /\ pilha = anterior.pilha

\* a Jogar after two Reservar: the front was slot 2 and the stack holds two
C5_Witness ==
  /\ pc = "menu"
  /\ acao.msg = "Jogada"
  /\ anterior.fila.inicio = 2
  /\ fila.inicio = 3
  /\ pilha.topo = 1
  /\ acao.peca = anterior.fila.itens[2]
  /\ Ids(FilaSeq(fila)) = <<3, 4, 5, 6, 7>>

\* C6: a successful use of the reserve reports the piece that was on top of
\* the stack, decrements topo, leaves the slots below the old top and the
\* queue and the id counter unchanged.
C6_UsoRetiraTopo ==
  acao.msg = "Usada" =>
    /\ acao.peca = anterior.pilha.itens[anterior.pilha.topo]
    /\ pilha.topo = anterior.pilha.topo - 1
    /\ \A k \in 0..pilha.topo : pilha.itens[k] = anterior.pilha.itens[k]
    /\ fila = anterior.fila
    /\ id_contador = anterior.id_contador

C6_Witness ==
  /\ opcao = 3
  /\ acao.msg = "Usada"
  /\ anterior.pilha.topo = PILHA_MAX - 1
  /\ pilha.topo = PILHA_MAX - 2
  /\ acao.peca = anterior.pilha.itens[PILHA_MAX - 1]

\* C7: a successful exchange of command 4 puts the old stack top in the
\* queue's front slot and the old queue front in the stack's top slot; every
\* other slot, inicio, fim, total, topo and the id counter are unchanged.
C7_TrocaFrenteTopo ==
  acao.msg = "TrocaRealizada" =>
    LET fa == anterior.fila
        pa == anterior.pilha
    IN
      /\ fila.itens[fila.inicio] = pa.itens[pa.topo]
      /\ pilha.itens[pilha.topo] = fa.itens[fa.inicio]
      /\ \A k \in (0..(FILA_MAX - 1)) \ {fa.inicio} : fila.itens[k] = fa.itens[k]
      /\ \A k \in (0..(PILHA_MAX - 1)) \ {pa.topo} : pilha.itens[k] = pa.itens[k]
      /\ fila.inicio = fa.inicio /\ fila.fim = fa.fim /\ fila.total = fa.total
      /\ pilha.topo = pa.topo
      /\ id_contador = anterior.id_contador

\* a queue of five and a stack of three; the exchange; counts still 5 and 3
C7_Witness ==
  /\ opcao = 4
  /\ acao.msg = "TrocaRealizada"
  /\ anterior.fila.total = FILA_MAX
  /\ anterior.pilha.topo = PILHA_MAX - 1
  /\ fila.itens[fila.inicio] = anterior.pilha.itens[PILHA_MAX - 1]
  /\ fila.itens[fila.inicio] # anterior.fila.itens[fila.inicio]
  /\ fila.total = FILA_MAX
  /\ pilha.topo = PILHA_MAX - 1

\* C8: command 5 succeeds exactly when the queue holds at least 3 pieces and
\* topo >= 2; then, for i in 0..2, the queue's logical position i holds the
\* old stack piece at offset i below the top and the stack slot at offset i
\* below the top holds the old queue piece at logical position i; logical
\* positions 3 and 4, inicio, fim, total, topo and the id counter are
\* unchanged.
C8_TrocaTripla ==
  acao.msg \in {"TrocaMultiplaRealizada", "TrocaMultiplaImpossivel"} =>
    LET fa == anterior.fila
        pa == anterior.pilha
    IN
      /\ acao.msg = "TrocaMultiplaRealizada" <=> (fa.total >= 3 /\ pa.topo >= 2)
      /\ acao.msg = "TrocaMultiplaRealizada" =>
           /\ \A k \in 0..2 :
                /\ FilaSeq(fila)[k + 1] = pa.itens[pa.topo - k]
                /\ pilha.itens[pilha.topo - k] = FilaSeq(fa)[k + 1]
           /\ \A k \in 4..fa.total : FilaSeq(fila)[k] = FilaSeq(fa)[k]
           /\ \A k \in 0..(pa.topo - 3) : pilha.itens[k] = pa.itens[k]
           /\ \A k \in 0..(FILA_MAX - 1) :
                (\A j \in 0..2 : k # (fa.inicio + j) % FILA_MAX)
                  => fila.itens[k] = fa.itens[k]
           /\ fila.inicio = fa.inicio /\ fila.fim = fa.fim /\ fila.total = fa.total
           /\ pilha.topo = pa.topo
           /\ id_contador = anterior.id_contador

\* a successful command 5 whose three queue positions wrap past the array end
C8_Witness ==
  /\ opcao = 5
  /\ acao.msg = "TrocaMultiplaRealizada"
  /\ anterior.fila.inicio = FILA_MAX - 2
  /\ fila.itens[0] = anterior.pilha.itens[0]
  /\ pilha.itens[0] = anterior.fila.itens[0]
  /\ fila.itens[0] # anterior.fila.itens[0]

\* C9: two successful exchanges of command 4 in a row, with no action in
\* between, give back the state before the first (queue, stack, counter).
C9_TrocaInvolucao ==
  [][(acao.msg = "TrocaRealizada" /\ opcao' = 4 /\ acao'.msg = "TrocaRealizada")
       => [fila |-> fila', pilha |-> pilha', id_contador |-> id_contador']
            = Estado(anterior)]_vars

C9_Witness ==
  /\ opcao = 4
  /\ acao.msg = "TrocaRealizada"
  /\ anterior.troca = "TrocaRealizada"
  /\ fila.itens[fila.inicio] # anterior.fila.itens[fila.inicio]

Vivas(f, p) == FilaSeq(f) \o PilhaSeq(p)

\* C14: in every state of the menu loop the pieces in the live slots of the
\* queue and of the stack have pairwise distinct ids, and every id generated
\* so far (0 .. id_contador - 1) is either in exactly one live slot or was
\* reported exactly once as played or used, never both and never neither;
\* after Reservar, Trocar and TrocaMultipla the live pieces are those before
\* the command (plus the piece generated by Reservar), none copied or lost.
C14_SemPartilhaNemPerda ==
  LET v == Vivas(fila, pilha)
      a == Vivas(anterior.fila, anterior.pilha)
      Em(seq) == {seq[k] : k \in 1..Len(seq)}
  IN
  pc \in {"menu", "fim"} =>
    /\ \A j, k \in 1..Len(v) : j # k => v[j].id # v[k].id
    /\ \A n \in 0..(id_contador - 1) :
         Cardinality({k \in 1..Len(v) : v[k].id = n}) + CopiesIn(n, relatadas) = 1
    /\ \A k \in 1..Len(v) : v[k].id \in 0..(id_contador - 1)
    /\ BagToSet(relatadas) \subseteq 0..(id_contador - 1)
    /\ acao.msg = "Reservada" =>
         /\ Len(v) = Len(a) + 1
         /\ Em(v) = Em(a) \cup {ultima}
         /\ Head(PilhaSeq(pilha)) = acao.peca
         /\ acao.peca \notin Em(FilaSeq(fila))
    /\ acao.msg \in {"TrocaRealizada", "TrocaMultiplaRealizada"} =>
         /\ Len(v) = Len(a)
         /\ Em(v) = Em(a)

\* an exchange of the front and the top after one piece was played and one
\* was used: both containers hold pieces and two were reported
C14_Witness ==
  /\ pc = "menu"
  /\ acao.msg = "TrocaRealizada"
  /\ BagCardinality(relatadas) = 2
  /\ fila.total = FILA_MAX
  /\ pilha.topo = 0
  /\ fila.itens[fila.inicio].id < pilha.itens[0].id

\* C15: the id counter (and the indices of the queue) are determined by the
\* logical content of the queue: whenever a command is read the queue is full,
\* its last piece is the piece generated last, id_contador is that piece's
\* id plus one and inicio = fim = id_contador mod FILA_MAX.  Two states with
\* the same contents therefore have the same counter, and a command with the
\* same draw acts on the same values in both.
C15_ContadorDeterminado ==
  pc \in {"menu", "fim"} =>
    /\ fila.total = FILA_MAX
    /\ FilaSeq(fila)[FILA_MAX] = ultima
    /\ id_contador = FilaSeq(fila)[FILA_MAX].id + 1
    /\ fila.inicio = id_contador % FILA_MAX
    /\ fila.fim = fila.inicio

\* a state reached through reserving, exchanging and playing
C15_Witness ==
  /\ pc = "menu"
  /\ acao.msg = "Jogada"
  /\ anterior.troca = "TrocaRealizada"
  /\ ~pilhaVazia(pilha)
  /\ id_contador = FilaSeq(fila)[FILA_MAX].id + 1

\* C16: no command and no step of the initial fill calls inserirFila on a
\* full queue, pushPilha on a full stack, removerFila on an empty queue or
\* popPilha on an empty stack; no piece with id -1 is reported or is live in
\* a container.
C16_GuardasNaoDisparam ==
  /\ pc = "fill" => ~filaCheia(fila)
  /\ acao.msg = "Jogada" =>
       /\ ~filaVazia(anterior.fila)
       /\ ~filaCheia(removerFila(anterior.fila).f)
  /\ acao.msg = "Reservada" =>
       /\ ~filaVazia(anterior.fila)
       /\ ~pilhaCheia(anterior.pilha)
       /\ ~filaCheia(removerFila(anterior.fila).f)
  /\ acao.msg = "Usada" => ~pilhaVazia(anterior.pilha)
  /\ acao.msg \in {"Jogada", "Reservada", "Usada"} => acao.peca.id # -1
  /\ \A k \in 1..fila.total : FilaSeq(fila)[k].id # -1
  /\ \A k \in 1..(pilha.topo + 1) : PilhaSeq(pilha)[k].id # -1

\* a Reservar that fills the stack, then a use of the reserve
C16_Witness ==
  /\ acao.msg = "Usada"
  /\ pilhaCheia(anterior.pilha)
  /\ acao.peca.id # -1
  /\ fila.total = FILA_MAX

\* C19: whenever a command is read the queue holds FILA_MAX pieces; the
\* reports "queue empty" of commands 1 and 2 never occur, command 4 fails
\* only on an empty stack and command 5 only on a stack of fewer than 3.
C19_FilaSempreCheia ==
  /\ pc = "menu" => fila.total = FILA_MAX
  /\ acao.msg \notin {"FilaVaziaJogar", "FilaVaziaReservar"}
  /\ acao.msg = "TrocaImpossivel" =>
       (pilhaVazia(anterior.pilha) /\ ~filaVazia(anterior.fila))
  /\ acao.msg = "TrocaMultiplaImpossivel" =>
       (anterior.pilha.topo < 2 /\ anterior.fila.total >= 3)

\* command 5 refused on a full queue and a stack of two
C19_Witness ==
  /\ pc = "menu"
  /\ acao.msg = "TrocaMultiplaImpossivel"
  /\ fila.total = FILA_MAX
  /\ anterior.pilha.topo = 1

\* C20: the exchange of command 4 uses queue slot inicio of a non-empty
\* queue and stack slot topo in 0..2; the exchange of command 5 uses, for
\* i in 0..2, a queue index in 0..4 that is the slot of logical position
\* i < total and a stack index with 0 <= topo - i <= topo <= 2; the three
\* queue indices are pairwise distinct and so are the three stack indices.
C20_TrocasEmSlotsVivos ==
  LET f == anterior.fila
      p == anterior.pilha
  IN
  /\ acao.msg = "TrocaRealizada" =>
       /\ f.inicio \in 0..(FILA_MAX - 1)
       /\ 0 < f.total
       /\ 0 <= p.topo /\ p.topo <= PILHA_MAX - 1
  /\ acao.msg = "TrocaMultiplaRealizada" =>
       /\ \A k \in 0..2 :
            /\ IdxFila(f, k) \in 0..(FILA_MAX - 1)
            /\ k < f.total
            /\ f.itens[IdxFila(f, k)] = FilaSeq(f)[k + 1]
            /\ 0 <= IdxPilha(p, k)
            /\ IdxPilha(p, k) <= p.topo
            /\ p.topo <= PILHA_MAX - 1
       /\ \A j, k \in 0..2 :
            j # k => (IdxFila(f, j) # IdxFila(f, k) /\ IdxPilha(p, j) # IdxPilha(p, k))
       /\ \A j, k \in 1..f.total : j # k => FilaSeq(f)[j] # FilaSeq(f)[k]

\* an exchange of three whose queue indices are 3, 4 and 0
C20_Witness ==
  /\ acao.msg = "TrocaMultiplaRealizada"
  /\ IdxFila(anterior.fila, 0) = FILA_MAX - 2
  /\ IdxFila(anterior.fila, 2) = 0
  /\ IdxPilha(anterior.pilha, 2) = 0
  /\ fila.itens[0] = anterior.pilha.itens[0]

\* C11: removerFila on an empty queue returns the piece with id -1 and
\* leaves inicio, fim, total and every slot unchanged (the queue is still
\* empty); popPilha on an empty stack returns the piece with id -1 and
\* leaves topo and every slot unchanged (the stack is still empty).
C11_RemocaoDeVazio ==
  /\ (acao.msg = "removerFila" /\ filaVazia(anterior.fila)) =>
       /\ acao.peca.id = -1
       /\ acao.peca = PecaInvalida
       /\ fila = anterior.fila
       /\ filaVazia(fila)
  /\ (acao.msg = "popPilha" /\ pilhaVazia(anterior.pilha)) =>
       /\ acao.peca.id = -1
       /\ acao.peca = PecaInvalida
       /\ pilha = anterior.pilha
       /\ pilhaVazia(pilha)

\* removerFila on a queue that was filled and emptied again
C11_Witness ==
  /\ acao.msg = "removerFila"
  /\ filaVazia(anterior.fila)
  /\ anterior.fila.inicio = 3
  /\ anterior.fila.itens[3] \in PecasAvulsas
  /\ acao.peca.id = -1
  /\ fila = anterior.fila

\* C12: inserirFila on a full queue leaves inicio, fim, total and every
\* slot unchanged; pushPilha on a full stack leaves topo and every slot
\* unchanged.
C12_InsercaoEmCheio ==
  /\ (acao.msg = "inserirFila" /\ filaCheia(anterior.fila)) => fila = anterior.fila
  /\ (acao.msg = "pushPilha" /\ pilhaCheia(anterior.pilha)) => pilha = anterior.pilha

\* inserirFila of a piece on a full queue that holds only the other piece
C12_Witness ==
  /\ acao.msg = "inserirFila"
  /\ filaCheia(anterior.fila)
  /\ \A k \in 0..(FILA_MAX - 1) : fila.itens[k] # acao.peca
  /\ fila = anterior.fila
  /\ pilhaCheia(pilha)

\* C13: in every reachable state, under any sequence of calls of the four
\* primitives and under any sequence of menu commands, 0 <= total <= 5,
\* 0 <= inicio <= 4, 0 <= fim <= 4 and -1 <= topo <= 2.
C13_Limites ==
  /\ 0 <= fila.total /\ fila.total <= FILA_MAX
  /\ 0 <= fila.inicio /\ fila.inicio <= FILA_MAX - 1
  /\ 0 <= fila.fim /\ fila.fim <= FILA_MAX - 1
  /\ -1 <= pilha.topo /\ pilha.topo <= PILHA_MAX - 1

\* a call on a full queue whose indices are at their largest, stack full
C13_Witness ==
  /\ pc = "prim"
  /\ acao.msg = "inserirFila"
  /\ filaCheia(anterior.fila)
  /\ fila.total = FILA_MAX
  /\ fila.inicio = FILA_MAX - 1
  /\ fila.fim = FILA_MAX - 1
  /\ pilha.topo = PILHA_MAX - 1

\* C17: the queue refines a FIFO sequence of capacity 5 under the
\* abstraction FilaSeq (the slots from inicio for total positions modulo 5):
\* inserirFila appends the piece to the sequence, or leaves it when it holds
\* 5; removerFila returns and removes its head, or returns the invalid piece
\* and leaves it when it is empty; fim = (inicio + total) mod 5 always.
C17_FilaRefinaFIFO ==
  LET a == FilaSeq(anterior.fila)
      q == FilaSeq(fila)
  IN
  /\ fila.fim = (fila.inicio + fila.total) % FILA_MAX
  /\ acao.msg = "inserirFila" =>
       q = IF Len(a) < FILA_MAX THEN Append(a, acao.peca) ELSE a
  /\ acao.msg = "removerFila" =>
       IF Len(a) > 0
         THEN acao.peca = Head(a) /\ q = Tail(a)
         ELSE acao.peca = PecaInvalida /\ q = a
  /\ acao.msg \in {"pushPilha", "popPilha"} => q = a

\* removerFila on a queue whose content wraps past the end of the array and
\* holds both pieces
C17_Witness ==
  /\ acao.msg = "removerFila"
  /\ anterior.fila.inicio = FILA_MAX - 1
  /\ anterior.fila.total = FILA_MAX - 1
  /\ fila.inicio = 0
  /\ anterior.fila.itens[FILA_MAX - 1] # anterior.fila.itens[0]
  /\ acao.peca = anterior.fila.itens[FILA_MAX - 1]

\* C18: the stack is a LIFO sequence of capacity 3 under the abstraction
\* PilhaSeq (top first): pushPilha on a stack that is not full puts the piece
\* on top, popPilha on a stack that is not empty returns and removes the top,
\* and pushPilha(p) on a stack that is not full followed at once by popPilha
\* returns p and restores topo and the live content.
C18_PilhaLIFO ==
  /\ [](LET a == PilhaSeq(anterior.pilha)
            q == PilhaSeq(pilha)
        IN
        /\ (acao.msg = "pushPilha" /\ ~pilhaCheia(anterior.pilha)) =>
             q = <<acao.peca>> \o a
        /\ (acao.msg = "popPilha" /\ ~pilhaVazia(anterior.pilha)) =>
             (acao.peca = Head(a) /\ q = Tail(a)))
  /\ [][(acao.msg = "pushPilha" /\ ~pilhaCheia(anterior.pilha)
           /\ acao'.msg = "popPilha")
          => /\ acao'.peca = acao.peca
             /\ pilha'.topo = anterior.pilha.topo
             /\ PilhaSeq(pilha') = PilhaSeq(anterior.pilha)]_vars

\* popPilha right after a pushPilha that put the piece on a stack of one
C18_Witness ==
  /\ acao.msg = "popPilha"
  /\ anterior.troca = "pushPilha"
  /\ anterior.pilha.topo = 1
  /\ pilha.topo = 0
  /\ acao.peca = anterior.pilha.itens[1]
  /\ acao.peca # pilha.itens[0]

====
